---- MODULE Spec2Model ----
(***************************************************************************)
(* aonapi: the registrar of uuid groups and its index cache                *)
(* (aonapi/indexer.py, aonapi/utils.py) and the read-through fetch of the  *)
(* groups' records (aonapi/routes/nethys_data.py), over the tables of      *)
(* aonapi/models.py.                                                       *)
(*                                                                         *)
(* A Python str is a sequence of symbols; a symbol is "-", a decimal       *)
(* digit, or a word of letters (the code modelled only splits on "-" and   *)
(* converts digits, so letters never matter one by one).                   *)
(***************************************************************************)
EXTENDS Integers, Sequences, FiniteSets, TLC

VARIABLES
    now,             \* the wall clock, in seconds (datetime.now())
    nticks,          \* how many times the clock was advanced
    phase,           \* "startup" | "serving" | "crashed" (main.py lifespan)
    category,        \* table category: rows [id, name]
    uuid_group,      \* table uuid_group: rows [id, uuid, category_id, label]
    tables,          \* tables ancestry, class, item: name -> set of rows
    category_cache,  \* the TTLCache of indexer.py: [valid, map]
    reg,             \* the registrar run (process_uuids): its position and locals
    nruns,           \* registrar runs started so far
    ug0,             \* uuid_group as it was when the current run started
    rprev,           \* the index the previous run was called with
    req,             \* the request handlers (fetch_data_by_uuid): position and locals
    nfetches,        \* upstream data fetches made so far
    _instances,      \* SingletonMeta._instances: the classes that have their instance
    _lock,           \* SingletonMeta._lock: the thread that holds it, or None
    _cache,          \* UUIDIndexCache()._cache: None or the index
    _timer,          \* UUIDIndexCache()._timer: the number of a Timer, 0 for None
    timers,          \* the threading.Timer objects made so far, by number: their state
    thr,             \* the threads that use the index cache: position and locals
    nconstructed,    \* instances of UUIDIndexCache constructed so far
    pure             \* a call of a parser of aon_serializers.py: argument and result

\* The state of the index cache and of the threads that use it.
idxvars == <<_instances, _lock, _cache, _timer, timers, thr, nconstructed>>

appvars == <<now, nticks, phase, category, uuid_group, tables, category_cache,
             reg, nruns, ug0, rprev, req, nfetches>>

vars == <<now, nticks, phase, category, uuid_group, tables, category_cache,
          reg, nruns, ug0, rprev, req, nfetches, idxvars, pure>>

-----------------------------------------------------------------------------
\* Bounds of the exploration.
MaxRuns == 2
MaxTicks == 1
MaxFetches == 2
MaxPayload == 2
MaxTimers == 3
MaxIdLen == 5

\* Constants of the program.
FETCH_THRESHOLD_SECONDS == 7200
max_retries == 3
retry_delay == 2

None == "None"

-----------------------------------------------------------------------------
\* Python strings.
Digits == {"0", "1", "2", "3", "4", "5", "6", "7", "8", "9"}

DigitVal(d) ==
    CASE d = "0" -> 0 [] d = "1" -> 1 [] d = "2" -> 2 [] d = "3" -> 3
      [] d = "4" -> 4 [] d = "5" -> 5 [] d = "6" -> 6 [] d = "7" -> 7
      [] d = "8" -> 8 [] d = "9" -> 9

RECURSIVE SplitFrom(_, _, _)
SplitFrom(s, i, cur) ==
    IF i > Len(s) THEN <<cur>>
    ELSE IF s[i] = "-" THEN <<cur>> \o SplitFrom(s, i + 1, <<>>)
    ELSE SplitFrom(s, i + 1, Append(cur, s[i]))

\* s.split("-"): the segments between the dashes, empty ones kept.
split(s) == SplitFrom(s, 1, <<>>)

\* Whether int(seg) returns (it raises ValueError otherwise).
IsNumeric(seg) == Len(seg) > 0 /\ \A i \in 1..Len(seg) : seg[i] \in Digits

RECURSIVE py_int(_)
py_int(seg) ==
    IF Len(seg) = 0 THEN 0
    ELSE 10 * py_int(SubSeq(seg, 1, Len(seg) - 1)) + DigitVal(seg[Len(seg)])

-----------------------------------------------------------------------------
\* The inputs explored.

AncestryId1 == <<"ancestry", "-", "1">>
AncestryId2 == <<"ancestry", "-", "2">>
NoDashId == <<"ancestry", "1">>
NonNumericId == <<"ancestry", "-", "x">>
ClassId1 == <<"class", "-", "1">>
ActionId1 == <<"action", "-", "1">>

\* An index: the (uuid, members) pairs in the order of the JSON document.
Index1 == << <<"u1", <<AncestryId1>> >>, <<"u2", <<ActionId1>> >>, <<"u3", <<>> >> >>
Index2 == << <<"u1", <<ClassId1>> >>, <<"u2", <<ActionId1>> >> >>
IndexPool == {Index1, Index2}

\* The uuids requested: the index's, and one that is in no index.
RequestUUIDs == {"u1", "u2", "u9"}

Handlers == {"h1"}

\* A second request handler, for the requests served while another is served.
Concurrent == {"h2"}
AllHandlers == Handlers \cup Concurrent

\* Upstream items: the compound id and the size (the other fields are taken
\* well-formed).
Item(id, size) == [id |-> id, size |-> size]
ItemPool == {Item(AncestryId1, "medium"), Item(AncestryId2, "medium"),
             Item(AncestryId2, "gigantic"), Item(NoDashId, "medium"),
             Item(NonNumericId, "medium")}

RECURSIVE SeqsUpTo(_, _)
SeqsUpTo(S, n) ==
    IF n = 0 THEN {<<>>}
    ELSE SeqsUpTo(S, n - 1) \cup {Append(q, x) : q \in {r \in SeqsUpTo(S, n - 1) : Len(r) = n - 1}, x \in S}

\* The JSON arrays the upstream answers with.
PayloadPool == SeqsUpTo(ItemPool, MaxPayload)

\* The answers of the upstream to GET <search_url>/<uuid>.json.
Responses == {[status |-> 200, body |-> payload] : payload \in PayloadPool}
                \cup {[status |-> 404, body |-> <<>>],
                      [status |-> 503, body |-> <<Item(AncestryId1, "medium")>>]}

\* The requests served two at a time, for the uuids of the index, and the
\* answers of the upstream to them: two well-formed items and one whose id
\* has no dash.
SyncItems == {Item(AncestryId1, "medium"), Item(AncestryId2, "medium"),
              Item(NoDashId, "medium")}
SyncUUIDs == {"u1", "u2"}
SyncResponses == {[status |-> 200, body |-> payload] : payload \in SeqsUpTo(SyncItems, MaxPayload)}
                    \cup {[status |-> 404, body |-> <<>>]}

\* The steps the clock is advanced by.
TickSteps == {FETCH_THRESHOLD_SECONDS - 1, FETCH_THRESHOLD_SECONDS}

\* The groups that are given a label by hand, and the labels.
Labelled == {"u1"}
Labels == {"champion reactions"}

-----------------------------------------------------------------------------
\* Storage.
ModelNames == {"ancestry", "class", "item"}

MaxId(rows) == IF rows = {} THEN 0 ELSE CHOOSE n \in {r.id : r \in rows} : \A r \in rows : r.id <= n

\* The id an INTEGER PRIMARY KEY column gets on insert.
NextId(rows) == MaxId(rows) + 1

CategoryMappings == {<<c.name, c.id>> : c \in category}

InMap(m, name) == \E p \in m : p[1] = name
\* MapGet answering with an id that no row was given.
MapGetUnassigned(m, name) == 0

MapGet(m, name) == (CHOOSE p \in m : p[1] = name)[2]

\* last: what the run logged for the pair it went through last;
\* ranout: the uuids it logged "Ran out of retries" for.
NoEntry == [uuid |-> None, result |-> None, attempts |-> 0, waited |-> 0, category_id |-> 0]

RegIdle == [pc |-> "idle", idx |-> <<>>, pos |-> 0, category_id |-> 0,
            attempt |-> 0, waited |-> 0, last |-> NoEntry, ranout |-> {},
            exc |-> None]

NoReturn == [kind |-> "none", detail |-> None, rows |-> {}, n |-> 0]

ReqIdle == [pc |-> "idle", uuid |-> None, group_id |-> 0, category_name |-> <<>>,
            model |-> None, data |-> {}, now |-> 0, hit |-> FALSE,
            status |-> 0, committed |-> FALSE, failed_entries |-> 0, missing_ids |-> {},
            ncalls |-> 0, ret |-> NoReturn,
            aon_data |-> <<>>, pos |-> 0, session |-> <<>>]

\* The threads that use the index cache: the one that runs
\* update_categories_and_uuids (the startup call, then the scheduler's job, one
\* run at a time), the thread of each threading.Timer (numbered as its
\* timer), and one that calls invalidate_uuid_index_cache().
JobThread == 0
ManualThread == MaxTimers + 1
Threads == 0..(MaxTimers + 1)

\* A Python value that may be None: <<>> for None, <<v>> for v.
NoValue == <<>>
Value(v) == <<v>>

ThrIdle == [pc |-> "idle", op |-> None, seen |-> NoValue, ret |-> NoValue,
            exc |-> None, ncalls |-> 0]

\* The answers of the upstream to GET index_path.
IndexResponses == {[status |-> 200, body |-> Value(index)] : index \in IndexPool}
                     \cup {[status |-> 503, body |-> NoValue]}

\* No parser call is under way.
NoCall == [pc |-> "idle", fn |-> None, arg |-> NoValue, result |-> NoValue]

\* The state after construction of everything but the parser call.
Constructed ==
    /\ now = 0
    /\ nticks = 0
    /\ phase = "startup"
    /\ category = {}
    /\ uuid_group = {}
    /\ tables = [m \in ModelNames |-> {}]
    /\ category_cache = [valid |-> FALSE, map |-> {}]
    /\ reg = RegIdle
    /\ nruns = 0
    /\ ug0 = {}
    /\ rprev = <<>>
    /\ req = [h \in AllHandlers |-> ReqIdle]
    /\ nfetches = 0
    /\ _instances = {}
    /\ _lock = {}
    /\ _cache = NoValue
    /\ _timer = 0
    /\ timers = <<>>
    /\ thr = [t \in Threads |-> ThrIdle]
    /\ nconstructed = 0

Init ==
    /\ Constructed
    /\ pure = NoCall

-----------------------------------------------------------------------------
\* The registrar: update_categories_and_uuids -> process_uuids.

CurUuid == reg.idx[reg.pos][1]
CurItems == reg.idx[reg.pos][2]

\* category_name = items[0].split("-")[0]
CategoryNameOf(items) == split(items[1])[1]

\* InsertGroup without the test for an existing row (and without the unique index).
InsertGroupAlways(groups, uuid, category_id) ==
    groups \cup {[id |-> NextId(groups), uuid |-> uuid,
                  category_id |-> category_id, label |-> None]}

\* InsertGroup as an upsert that writes the category over the existing row's.
InsertGroupOverwriting(groups, uuid, category_id) ==
    IF \E g \in groups : g.uuid = uuid
    THEN {IF g.uuid = uuid THEN [g EXCEPT !.category_id = category_id, !.label = None] ELSE g :
            g \in groups}
    ELSE groups \cup {[id |-> NextId(groups), uuid |-> uuid,
                       category_id |-> category_id, label |-> None]}

\* The transaction of one attempt: add the group unless one with this uuid exists.
InsertGroup(groups, uuid, category_id) ==
    IF \E g \in groups : g.uuid = uuid
    THEN groups
    ELSE groups \cup {[id |-> NextId(groups), uuid |-> uuid,
                       category_id |-> category_id, label |-> None]}

\* RetriesExhausted with one attempt too many.
RetriesExhaustedOffByOne(attempt) == attempt > max_retries

\* for attempt in range(max_retries): whether the loop is over after `attempt` tries.
RetriesExhausted(attempt) == attempt >= max_retries

LogEntry(result) ==
    [uuid |-> CurUuid, result |-> result, attempts |-> reg.attempt,
     waited |-> reg.waited, category_id |-> reg.category_id]

\* An exception leaves process_uuids; at startup it leaves the lifespan handler too.
RegRaise(exc) ==
    /\ reg' = [reg EXCEPT !.pc = "raised", !.exc = exc]
    /\ phase' = IF phase = "startup" THEN "crashed" ELSE phase

\* The loop goes on to the next (uuid, items) pair.
RegContinue(entry) ==
    reg' = [reg EXCEPT !.pc = "loop", !.pos = reg.pos + 1, !.attempt = 0,
                       !.waited = 0, !.category_id = 0, !.last = entry,
                       !.ranout = IF entry.result = "ranout" THEN @ \cup {entry.uuid} ELSE @]

\* A run starts: once at startup, then on the scheduler's trigger.
UpdateStart(index) ==
    /\ nruns < MaxRuns
    /\ \/ phase = "startup" /\ nruns = 0
       \/ phase = "serving" /\ reg.pc \in {"idle", "raised"}
    /\ reg' = [RegIdle EXCEPT !.pc = "loop", !.idx = index, !.pos = 1]
    /\ nruns' = nruns + 1
    /\ ug0' = uuid_group
    /\ rprev' = reg.idx
    /\ UNCHANGED <<now, nticks, phase, category, uuid_group, tables,
                   category_cache, req, nfetches>>
    /\ UNCHANGED pure

\* for uuid, items in uuid_data.items(): exhausted.
RegLoopEnd ==
    /\ reg.pc = "loop"
    /\ reg.pos > Len(reg.idx)
    /\ reg' = [reg EXCEPT !.pc = "idle"]
    /\ phase' = IF phase = "startup" THEN "serving" ELSE phase
    /\ UNCHANGED <<now, nticks, category, uuid_group, tables, category_cache,
                   nruns, ug0, rprev, req, nfetches>>
    /\ UNCHANGED idxvars
    /\ UNCHANGED pure

\* if not items: continue
RegSkipEmpty ==
    /\ reg.pc = "loop"
    /\ reg.pos <= Len(reg.idx)
    /\ CurItems = <<>>
    /\ RegContinue(LogEntry("skipped"))
    /\ UNCHANGED <<now, nticks, phase, category, uuid_group, tables,
                   category_cache, nruns, ug0, rprev, req, nfetches>>
    /\ UNCHANGED idxvars
    /\ UNCHANGED pure

\* fetch_categories(): the cached mapping, or the table's, which is then cached.
FetchCategories == IF category_cache.valid THEN category_cache.map ELSE CategoryMappings

\* get_or_create_category, up to its lookup of the name.
RegCategoryLookup ==
    /\ reg.pc = "loop"
    /\ reg.pos <= Len(reg.idx)
    /\ CurItems # <<>>
    /\ category_cache' = [valid |-> TRUE, map |-> FetchCategories]
    /\ IF InMap(FetchCategories, CategoryNameOf(CurItems))
       THEN reg' = [reg EXCEPT !.pc = "attempt",
                      !.category_id = MapGet(FetchCategories, CategoryNameOf(CurItems))]
       ELSE reg' = [reg EXCEPT !.pc = "create"]
    /\ UNCHANGED <<now, nticks, phase, category, uuid_group, tables,
                   nruns, ug0, rprev, req, nfetches>>
    /\ UNCHANGED idxvars
    /\ UNCHANGED pure

\* get_or_create_category, from the insert of the new Category row on.
\* The commit may find the database locked; the name column is unique; the
\* cache entry may have expired by the time the new mapping is put in it.
RegCategoryCreate(outcome) ==
    /\ reg.pc = "create"
    /\ LET name == CategoryNameOf(CurItems)
           id == NextId(category)
       IN  IF outcome = "locked"
           THEN /\ RegRaise("OperationalError")
                /\ UNCHANGED <<category, category_cache>>
           ELSE IF \E c \in category : c.name = name
           THEN /\ RegRaise("IntegrityError")
                /\ UNCHANGED <<category, category_cache>>
           ELSE /\ category' = category \cup {[id |-> id, name |-> name]}
                /\ IF category_cache.valid
                   THEN /\ category_cache' =
                              [category_cache EXCEPT !.map = @ \cup {<<name, id>>}]
                        /\ reg' = [reg EXCEPT !.pc = "attempt", !.category_id = id]
                        /\ UNCHANGED phase
                   ELSE /\ RegRaise("KeyError")
                        /\ UNCHANGED category_cache
    /\ UNCHANGED <<now, nticks, uuid_group, tables, nruns, ug0, rprev, req, nfetches>>
    /\ UNCHANGED idxvars
    /\ UNCHANGED pure

\* One pass of the retry loop's body: the transaction commits, or the database
\* is locked (OperationalError), or something else goes wrong.
RegAttempt(outcome) ==
    /\ reg.pc = "attempt"
    /\ \/ /\ outcome = "ok"
          /\ uuid_group' = InsertGroup(uuid_group, CurUuid, reg.category_id)
          /\ RegContinue([LogEntry("ok") EXCEPT !.attempts = reg.attempt + 1])
       \/ /\ outcome = "locked"
          /\ reg' = [reg EXCEPT !.pc = "sleep", !.attempt = reg.attempt + 1]
          /\ UNCHANGED uuid_group
       \/ /\ outcome = "error"
          /\ RegContinue([LogEntry("error") EXCEPT !.attempts = reg.attempt + 1])
          /\ UNCHANGED uuid_group
    /\ UNCHANGED <<now, nticks, phase, category, tables, category_cache,
                   nruns, ug0, rprev, req, nfetches>>
    /\ UNCHANGED idxvars
    /\ UNCHANGED pure

\* time.sleep(retry_delay), then the next attempt or the loop's else clause.
RegSleep ==
    /\ reg.pc = "sleep"
    /\ IF RetriesExhausted(reg.attempt)
       THEN RegContinue([LogEntry("ranout") EXCEPT !.waited = reg.waited + retry_delay])
       ELSE reg' = [reg EXCEPT !.pc = "attempt", !.waited = reg.waited + retry_delay]
    /\ UNCHANGED <<now, nticks, phase, category, uuid_group, tables,
                   category_cache, nruns, ug0, rprev, req, nfetches>>
    /\ UNCHANGED idxvars
    /\ UNCHANGED pure

\* The 5 minutes of the category cache are over.
CategoryCacheExpire ==
    /\ category_cache.valid
    /\ category_cache' = [valid |-> FALSE, map |-> {}]
    /\ UNCHANGED <<now, nticks, phase, category, uuid_group, tables,
                   reg, nruns, ug0, rprev, req, nfetches>>
    /\ UNCHANGED idxvars
    /\ UNCHANGED pure

\* A group is given its label, by hand.
SetLabel(u, l) ==
    /\ \E g \in uuid_group : g.uuid = u /\ g.label = None
    /\ uuid_group' = {IF g.uuid = u THEN [g EXCEPT !.label = l] ELSE g : g \in uuid_group}
    /\ UNCHANGED <<now, nticks, phase, category, tables, category_cache,
                   reg, nruns, ug0, rprev, req, nfetches>>
    /\ UNCHANGED idxvars
    /\ UNCHANGED pure

-----------------------------------------------------------------------------
\* Serialization (aon_serializers.py).

Sizes == {"tiny", "small", "medium", "large", "huge"}

Parsed(entry) == [ok |-> TRUE, exc |-> None, entry |-> entry]
Raises(exc) == [ok |-> FALSE, exc |-> exc, entry |-> [id |-> 0]]

\* int(aon_data["id"].split("-")[1]): what it raises, if anything.
IdError(id) ==
    IF Len(split(id)) < 2 THEN "IndexError"
    ELSE IF ~IsNumeric(split(id)[2]) THEN "ValueError"
    ELSE None

NumericId(id) == py_int(split(id)[2])

parse_ancestry_data(aon_data, uuid_group_id, t) ==
    IF IdError(aon_data.id) # None THEN Raises(IdError(aon_data.id))
    ELSE IF aon_data.size \notin Sizes THEN Raises("ValueError")
    ELSE Parsed([id |-> NumericId(aon_data.id), uuid_group_id |-> uuid_group_id,
                 last_fetched |-> t])

parse_class_data(aon_data, uuid_group_id, t) ==
    IF IdError(aon_data.id) # None THEN Raises(IdError(aon_data.id))
    ELSE Parsed([id |-> NumericId(aon_data.id), uuid_group_id |-> uuid_group_id,
                 last_fetched |-> t])

\* The generic record: its id is left to the database. (Its other columns,
\* category_id, category_name and data, are written and never read.)
default_nethys_data_serializer(aon_data, uuid_group_id, t) ==
    Parsed([id |-> 0, uuid_group_id |-> uuid_group_id, last_fetched |-> t])

\* SERIALIZER_MAP.get(category_name, default_nethys_data_serializer)
Serialize(category_name, aon_data, uuid_group_id, t) ==
    IF category_name = <<"ancestry">> THEN parse_ancestry_data(aon_data, uuid_group_id, t)
    ELSE IF category_name = <<"class">> THEN parse_class_data(aon_data, uuid_group_id, t)
    ELSE default_nethys_data_serializer(aon_data, uuid_group_id, t)

\* MODEL_MAP.get(category_name, DefaultNethysDataModel)
ModelFor(category_name) ==
    IF category_name = <<"ancestry">> THEN "ancestry"
    ELSE IF category_name = <<"class">> THEN "class"
    ELSE "item"

-----------------------------------------------------------------------------
\* The ability parser (parse_ability_mispellings) and the enumerations it maps
\* to. A string is the sequence of its words and separators.

\* enums.Ability: the member names (each member's value is its name).
Ability == {<<"strength">>, <<"dexterity">>, <<"constitution">>,
            <<"intelligence">>, <<"wisdom">>, <<"charisma">>}

two_free_ability_boosts == <<"two", "_", "free", "_", "ability", "_", "boosts">>

\* enums.AbilityBoost.__members__: the member names.
AbilityBoost == Ability \cup {<<"free">>, two_free_ability_boosts}

\* A member of an enumeration, and the string it is equal to (every
\* enumeration here derives from str).
Member(enum, name) == [ok |-> TRUE, exc |-> None, enum |-> enum, name |-> name]

MemberValue(m) ==
    IF m.enum = "AbilityBoost" /\ m.name = two_free_ability_boosts
    THEN <<"two", " ", "free", " ", "ability", " ", "boosts">>
    ELSE m.name

ReturnsNone == [ok |-> TRUE, exc |-> None, enum |-> None, name |-> <<>>]
AbilityRaises(exc) == [ok |-> FALSE, exc |-> exc, enum |-> None, name |-> <<>>]

replace_nothing(s) == s

\* s.replace(" ", "_")
replace(s) == [i \in 1..Len(s) |-> IF s[i] = " " THEN "_" ELSE s[i]]

ability_map ==
    {[correct_spelling |-> <<"intelligence">>,
      misspellings |-> {<<"inteligence">>, <<"intellgence">>, <<"intellignce">>,
                        <<"intellignece">>}],
     [correct_spelling |-> <<"strength">>,
      misspellings |-> {<<"strengh">>, <<"strenght">>}],
     [correct_spelling |-> <<"dexterity">>,
      misspellings |-> {<<"dextarity">>, <<"dexteirty">>}],
     [correct_spelling |-> <<"constitution">>,
      misspellings |-> {<<"constition">>, <<"consitution">>}],
     [correct_spelling |-> <<"wisdom">>, misspellings |-> {<<"widsom">>}],
     [correct_spelling |-> <<"charisma">>, misspellings |-> {<<"charimsa">>}]}

special_cases ==
    {[correct_spelling |-> <<"two", " ", "free", " ", "ability", " ", "boosts">>,
      misspellings |-> {<<"two", "_", "free">>, <<"two", " ", "free">>,
                        <<"2", " ", "free">>}],
     [correct_spelling |-> <<"free">>, misspellings |-> {<<"free">>}]}

\* The argument is NoValue for None and Value(s) for the string s.
parse_ability_mispellings(ability) ==
    IF ability = NoValue THEN ReturnsNone
    ELSE IF replace(ability[1]) \in AbilityBoost
    THEN Member("AbilityBoost", replace(ability[1]))
    ELSE IF \E e \in ability_map : ability[1] \in e.misspellings
    THEN Member("Ability",
                (CHOOSE e \in ability_map : ability[1] \in e.misspellings).correct_spelling)
    ELSE IF \E e \in special_cases : ability[1] \in e.misspellings
    THEN Member("AbilityBoost",
                replace((CHOOSE e \in special_cases : ability[1] \in e.misspellings).correct_spelling))
    ELSE AbilityRaises("ValueError")

\* The strings the parser is called with: the canonical names, the listed
\* misspellings and aliases, the two-free boost written with spaces and with
\* underscores, and strings of none of these kinds.
TwoFreeSpellings ==
    {<<"two", x, "free", y, "ability", z, "boosts">> : x \in {" ", "_"}, y \in {" ", "_"}, z \in {" ", "_"}}

AbilityStrings ==
    AbilityBoost \cup UNION {e.misspellings : e \in ability_map}
        \cup UNION {e.misspellings : e \in special_cases}
        \cup TwoFreeSpellings
        \cup {<<>>, <<"luck">>, <<"Strength">>, <<"strength", " ">>, <<"strenth">>,
              <<"two", " ", "free", " ", "boosts">>, <<"2", "_", "free">>,
              <<"free", " ", "boost">>, <<"wisdom", " ", "strength">>}

AbilityInputs == {NoValue} \cup {Value(a) : a \in AbilityStrings}

\* The compound ids the typed parsers are called with.
IdSymbols == {"ancestry", "-", "1", "2"}
IdInputs == SeqsUpTo(IdSymbols, MaxIdLen)

Called(fn, arg) == [pc |-> "called", fn |-> fn, arg |-> arg, result |-> NoValue]

\* A parser is called with one of the inputs.
InitParse ==
    /\ Constructed
    /\ pure \in {Called("parse_ability_mispellings", a) : a \in AbilityInputs}
                \cup {Called(fn, id) : fn \in {"parse_ancestry_data", "parse_class_data"},
                                       id \in IdInputs}

ParseAbility ==
    /\ pure.pc = "called"
    /\ pure.fn = "parse_ability_mispellings"
    /\ pure' = [pure EXCEPT !.pc = "returned",
                            !.result = parse_ability_mispellings(pure.arg)]
    /\ UNCHANGED appvars
    /\ UNCHANGED idxvars

ParseTyped ==
    /\ pure.pc = "called"
    /\ pure.fn \in {"parse_ancestry_data", "parse_class_data"}
    /\ pure' = [pure EXCEPT !.pc = "returned",
                            !.result = IF pure.fn = "parse_ancestry_data"
                                       THEN parse_ancestry_data(Item(pure.arg, "medium"), 1, now)
                                       ELSE parse_class_data(Item(pure.arg, "medium"), 1, now)]
    /\ UNCHANGED appvars
    /\ UNCHANGED idxvars

-----------------------------------------------------------------------------
\* The record synchronizer (store_fetched_data).

\* The loop over the payload: the entries added to the session and the count
\* of failures. The except clause formats aon_data['id'].split('-')[1] for
\* its message, which raises in its turn when the id has no dash.
RECURSIVE SerializeAll(_, _, _, _, _)
SerializeAll(category_name, aon_data_list, uuid_group_id, t, i) ==
    IF i > Len(aon_data_list)
    THEN [stored_entries |-> <<>>, failed_entries |-> 0, exc |-> None]
    ELSE LET r == Serialize(category_name, aon_data_list[i], uuid_group_id, t)
             rest == SerializeAll(category_name, aon_data_list, uuid_group_id, t, i + 1)
         IN  IF r.ok THEN [rest EXCEPT !.stored_entries = <<r.entry>> \o @]
             ELSE IF Len(split(aon_data_list[i].id)) < 2
             THEN [rest EXCEPT !.exc = "IndexError"]
             ELSE [rest EXCEPT !.failed_entries = @ + 1]

\* The rows of a model's table of one group.
GroupRows(tbls, model, uuid_group_id) ==
    {r \in tbls[model] : r.uuid_group_id = uuid_group_id}

\* Whether the INSERTs of the commit hit the primary key: an id that is in
\* the table already, or twice in the batch.
PrimaryKeyConflict(rows, entries) ==
    \/ \E i \in 1..Len(entries) : \E r \in rows : r.id = entries[i].id
    \/ \E i, j \in 1..Len(entries) : i # j /\ entries[i].id = entries[j].id

\* The entries as the commit and the refresh leave them: the generic table
\* numbers its rows itself.
WithIds(model, rows, entries) ==
    IF model = "item"
    THEN [i \in 1..Len(entries) |-> [entries[i] EXCEPT !.id = MaxId(rows) + i]]
    ELSE entries

\* TablesAfterCommit replacing the group's rows by the entries.
TablesAfterCommitReplacing(tbls, model, uuid_group_id, entries) ==
    [tbls EXCEPT ![model] = {r \in @ : r.uuid_group_id # uuid_group_id}
                                \cup {entries[i] : i \in 1..Len(entries)}]

\* The tables after the commit of the entries.
TablesAfterCommit(tbls, model, uuid_group_id, entries) ==
    [tbls EXCEPT ![model] = @ \cup {entries[i] : i \in 1..Len(entries)}]

\* Python values of the two id sets of the reconciliation.
PyInt(n) == <<"int", n>>
PyStr(s) == <<"str", s>>
PyEq(a, b) == a[1] = b[1] /\ a[2] = b[2]
PySetDiff(A, B) == {a \in A : ~\E b \in B : PyEq(a, b)}

\* {aon_data["id"].split("-")[1] for aon_data in aon_data_list}
fresh_data_ids(aon_data_list) ==
    {PyStr(split(aon_data_list[i].id)[2]) : i \in 1..Len(aon_data_list)}

\* The ids of the rows of DefaultNethysDataModel of the group.
db_data_ids(tbls, uuid_group_id) ==
    {PyInt(r.id) : r \in GroupRows(tbls, "item", uuid_group_id)}

missing_ids(tbls, uuid_group_id, aon_data_list) ==
    PySetDiff(db_data_ids(tbls, uuid_group_id), fresh_data_ids(aon_data_list))

StoreRaises(exc, tbls, committed) ==
    [exc |-> exc, tables |-> tbls, committed |-> committed, stored_entries |-> <<>>,
     failed_entries |-> 0, missing_ids |-> {}]

\* After the loop: the commit, the refresh and the reconciliation.
StoreSerialized(s, uuid_group_id, model, aon_data_list, tbls) ==
    IF s.exc # None THEN StoreRaises(s.exc, tbls, FALSE)
    ELSE IF model # "item" /\ PrimaryKeyConflict(tbls[model], s.stored_entries)
    THEN StoreRaises("IntegrityError", tbls, FALSE)
    ELSE LET entries == WithIds(model, tbls[model], s.stored_entries)
             after == TablesAfterCommit(tbls, model, uuid_group_id, entries)
         IN  IF \E i \in 1..Len(aon_data_list) : Len(split(aon_data_list[i].id)) < 2
             THEN StoreRaises("IndexError", after, TRUE)
             ELSE [exc |-> None, tables |-> after, committed |-> TRUE,
                   stored_entries |-> entries, failed_entries |-> s.failed_entries,
                   missing_ids |-> missing_ids(after, uuid_group_id, aon_data_list)]

store_fetched_data(uuid_group_id, model, category_name, aon_data_list, tbls, t) ==
    StoreSerialized(SerializeAll(category_name, aon_data_list, uuid_group_id, t, 1),
                    uuid_group_id, model, aon_data_list, tbls)

-----------------------------------------------------------------------------
\* The freshness gate and fetch orchestrator (fetch_data_by_uuid).

\* IsFresh with a window of one hour.
IsFreshOneHour(data, t) ==
    /\ data # {}
    /\ \A item \in data : item.last_fetched > t - 3600

\* data and all(item.last_fetched > now - timedelta(seconds=FETCH_THRESHOLD_SECONDS) ...)
IsFresh(data, t) ==
    /\ data # {}
    /\ \A item \in data : item.last_fetched > t - FETCH_THRESHOLD_SECONDS

Return404(detail) == [kind |-> "404", detail |-> detail, rows |-> {}, n |-> 0]
ReturnRows(rows, n) == [kind |-> "data", detail |-> None, rows |-> rows, n |-> n]
ReturnRaise(exc) == [kind |-> "raise", detail |-> exc, rows |-> {}, n |-> 0]

\* GroupOf without the where clause: any group answers for an unknown uuid.
GroupOfAny(groups, uuid) ==
    IF \E g \in groups : g.uuid = uuid THEN {g \in groups : g.uuid = uuid} ELSE groups

\* select(UUID_Group).where(UUID_Group.uuid == uuid)
GroupOf(groups, uuid) == {g \in groups : g.uuid = uuid}

\* fetch_data_from_aon with no test of the status code.
fetch_data_from_aon_any_status(status, payload) == payload

\* fetch_data_from_aon: None for a status other than 200, else the JSON of the
\* body (None and the empty array, both false to 'if not aon_data', are <<>>).
fetch_data_from_aon(status, payload) == IF status # 200 THEN <<>> ELSE payload

\* From the lookup of the group to the freshness check.
HRead(h, uuid) ==
    /\ phase = "serving"
    /\ req[h].pc = "idle"
    /\ LET groups == GroupOf(uuid_group, uuid)
       IN  IF groups = {}
           THEN req' = [req EXCEPT ![h] = [ReqIdle EXCEPT !.pc = "done", !.uuid = uuid,
                            !.ret = Return404("UUID not found.")]]
           ELSE LET g == CHOOSE x \in groups : TRUE
                    cats == {c \in category : c.id = g.category_id}
                IN  IF cats = {}
                    THEN req' = [req EXCEPT ![h] = [ReqIdle EXCEPT !.pc = "done",
                                     !.uuid = uuid, !.group_id = g.id,
                                     !.ret = ReturnRaise("AttributeError")]]
                    ELSE LET name == (CHOOSE c \in cats : TRUE).name
                             model == ModelFor(name)
                             data == GroupRows(tables, model, g.id)
                             r == [ReqIdle EXCEPT !.uuid = uuid, !.group_id = g.id,
                                      !.category_name = name, !.model = model,
                                      !.data = data, !.now = now]
                         IN  IF IsFresh(data, now)
                             THEN req' = [req EXCEPT ![h] = [r EXCEPT !.pc = "done",
                                              !.hit = TRUE,
                                              !.ret = ReturnRows(data, Cardinality(data))]]
                             ELSE req' = [req EXCEPT ![h] = [r EXCEPT !.pc = "fetch"]]
    /\ UNCHANGED <<now, nticks, phase, category, uuid_group, tables, category_cache,
                   reg, nruns, ug0, rprev, nfetches>>
    /\ UNCHANGED idxvars
    /\ UNCHANGED pure

\* The miss: fetch_data_from_aon, the test of its result, store_fetched_data
\* and the return of what it stored.
HFetch(h, status, payload) ==
    /\ req[h].pc = "fetch"
    /\ nfetches < MaxFetches
    /\ nfetches' = nfetches + 1
    /\ \E aon_data \in {fetch_data_from_aon(status, payload)},
          r \in {[req[h] EXCEPT !.pc = "done", !.ncalls = @ + 1, !.status = status]} :
       \E s \in {store_fetched_data(r.group_id, r.model, r.category_name, aon_data,
                                    tables, now)} :
           IF aon_data = <<>>
           THEN /\ req' = [req EXCEPT ![h] = [r EXCEPT !.ret = Return404("Data not found.")]]
                /\ UNCHANGED tables
           ELSE /\ tables' = s.tables
                /\ req' = [req EXCEPT ![h] = [r EXCEPT
                              !.committed = s.committed,
                              !.failed_entries = s.failed_entries,
                              !.missing_ids = s.missing_ids,
                              !.ret = IF s.exc # None THEN ReturnRaise(s.exc)
                                      ELSE ReturnRows({s.stored_entries[i] : i \in 1..Len(s.stored_entries)},
                                                      Len(s.stored_entries))]]
    /\ UNCHANGED <<now, nticks, phase, category, uuid_group, category_cache,
                   reg, nruns, ug0, rprev>>
    /\ UNCHANGED idxvars
    /\ UNCHANGED pure

\* TablesAfterAdd when every add is committed at once.
TablesAfterAddCommitted(tbls, model, uuid_group_id, entries) ==
    TablesAfterCommit(tbls, model, uuid_group_id, entries)

\* What db.add(new_entry) leaves in the tables that the other sessions read:
\* the entry is pending in the session of the request until the commit.
TablesAfterAdd(tbls, model, uuid_group_id, entries) == tbls

\* The miss, step by step, for the requests served concurrently. First
\* fetch_data_from_aon and the test of its result.
HFetchCall(h, status, payload) ==
    /\ req[h].pc = "fetch"
    /\ nfetches < MaxFetches
    /\ nfetches' = nfetches + 1
    /\ \E aon_data \in {fetch_data_from_aon(status, payload)},
          r \in {[req[h] EXCEPT !.ncalls = @ + 1, !.status = status]} :
           IF aon_data = <<>>
           THEN req' = [req EXCEPT ![h] = [r EXCEPT !.pc = "done",
                                              !.ret = Return404("Data not found.")]]
           ELSE req' = [req EXCEPT ![h] = [r EXCEPT !.pc = "add", !.aon_data = aon_data,
                                              !.pos = 1]]
    /\ UNCHANGED <<now, nticks, phase, category, uuid_group, tables, category_cache,
                   reg, nruns, ug0, rprev>>
    /\ UNCHANGED idxvars
    /\ UNCHANGED pure

\* One pass of the loop of store_fetched_data: the serializer and db.add, or
\* the except clause (whose message raises when the id has no dash; the
\* session is then closed with its pending entries).
HAdd(h) ==
    /\ req[h].pc = "add"
    /\ req[h].pos <= Len(req[h].aon_data)
    /\ \E r \in {Serialize(req[h].category_name, req[h].aon_data[req[h].pos],
                            req[h].group_id, now)} :
          IF r.ok
          THEN /\ req' = [req EXCEPT ![h].session = Append(@, r.entry), ![h].pos = @ + 1]
               /\ tables' = TablesAfterAdd(tables, req[h].model, req[h].group_id, <<r.entry>>)
          ELSE IF Len(split(req[h].aon_data[req[h].pos].id)) < 2
          THEN /\ req' = [req EXCEPT ![h].pc = "done", ![h].session = <<>>,
                                     ![h].ret = ReturnRaise("IndexError")]
               /\ UNCHANGED tables
          ELSE /\ req' = [req EXCEPT ![h].failed_entries = @ + 1, ![h].pos = @ + 1]
               /\ UNCHANGED tables
    /\ UNCHANGED <<now, nticks, phase, category, uuid_group, category_cache,
                   reg, nruns, ug0, rprev, nfetches>>
    /\ UNCHANGED idxvars
    /\ UNCHANGED pure

\* After the loop: db.commit(), the refresh, the reconciliation and the return.
HCommit(h) ==
    /\ req[h].pc = "add"
    /\ req[h].pos > Len(req[h].aon_data)
    /\ \E s \in {StoreSerialized([stored_entries |-> req[h].session,
                                   failed_entries |-> req[h].failed_entries,
                                   exc |-> None],
                                  req[h].group_id, req[h].model, req[h].aon_data, tables)} :
          /\ tables' = s.tables
          /\ req' = [req EXCEPT ![h] = [req[h] EXCEPT
                        !.pc = "done",
                        !.session = <<>>,
                        !.committed = s.committed,
                        !.missing_ids = s.missing_ids,
                        !.ret = IF s.exc # None THEN ReturnRaise(s.exc)
                                ELSE ReturnRows({s.stored_entries[i] : i \in 1..Len(s.stored_entries)},
                                                Len(s.stored_entries))]]
    /\ UNCHANGED <<now, nticks, phase, category, uuid_group, category_cache,
                   reg, nruns, ug0, rprev, nfetches>>
    /\ UNCHANGED idxvars
    /\ UNCHANGED pure

\* The response is sent; the handler takes the next request.
HReturn(h) ==
    /\ req[h].pc = "done"
    /\ req' = [req EXCEPT ![h] = ReqIdle]
    /\ UNCHANGED <<now, nticks, phase, category, uuid_group, tables, category_cache,
                   reg, nruns, ug0, rprev, nfetches>>
    /\ UNCHANGED idxvars
    /\ UNCHANGED pure

\* Time passes.
Tick(d) ==
    /\ nticks < MaxTicks
    /\ now' = now + d
    /\ nticks' = nticks + 1
    /\ UNCHANGED <<phase, category, uuid_group, tables, category_cache,
                   reg, nruns, ug0, rprev, req, nfetches>>
    /\ UNCHANGED idxvars
    /\ UNCHANGED pure

-----------------------------------------------------------------------------
\* The index cache: UUIDIndexCache (indexer.py) over SingletonMeta (utils.py).
\* Each action is one stretch of code between two accesses to the state the
\* threads share (_instances, _lock, _cache, _timer and the Timer objects).

\* A Timer is "created" until start(), then "pending" until it fires or is
\* cancelled, "fired" while its function runs, and "finished" once its event
\* is set (by cancel() or at the end of run()); cancel() before start()
\* leaves it "created_finished", and start() then ends it without a call of
\* the function.
Pending(tms) == {k \in 1..Len(tms) : tms[k] = "pending"}

\* Timer.cancel() sets the event: a pending timer will not fire, a function
\* that runs is not stopped.
Cancel(tms, k) ==
    IF k = 0 THEN tms
    ELSE IF tms[k] = "created" THEN [tms EXCEPT ![k] = "created_finished"]
    ELSE IF tms[k] \in {"pending", "fired"} THEN [tms EXCEPT ![k] = "finished"]
    ELSE tms

\* A thread of the index cache takes a step: the process is up. A run of
\* process_uuids shares no state with these threads, so its steps are taken in
\* a row: the interleavings left out differ from those explored by the order
\* of independent steps only.
Scheduled == phase # "crashed" /\ reg.pc \in {"idle", "raised"}

\* update_categories_and_uuids is called: at startup, then by the scheduler.
JobStart ==
    /\ thr[JobThread].pc = "idle"
    /\ nruns < MaxRuns
    /\ \/ phase = "startup" /\ nruns = 0
       \/ phase = "serving" /\ reg.pc \in {"idle", "raised"}
    /\ thr' = [thr EXCEPT ![JobThread] = [ThrIdle EXCEPT !.pc = "lock", !.op = "get"]]
    /\ UNCHANGED <<_instances, _lock, _cache, _timer, timers, nconstructed>>
    /\ UNCHANGED appvars
    /\ UNCHANGED pure

\* invalidate_uuid_index_cache() is called (once in the runs explored).
ManualStart ==
    /\ phase = "serving"
    /\ reg.pc \in {"idle", "raised"}
    /\ thr[ManualThread].pc = "idle"
    /\ thr' = [thr EXCEPT ![ManualThread] = [ThrIdle EXCEPT !.pc = "lock", !.op = "invalidate"]]
    /\ UNCHANGED <<_instances, _lock, _cache, _timer, timers, nconstructed>>
    /\ UNCHANGED appvars
    /\ UNCHANGED pure

\* with cls._lock: blocks while another thread holds it.
LockFree(holders) == holders = {}

\* UUIDIndexCache(): SingletonMeta.__call__ takes the lock.
Acquire(t) ==
    /\ Scheduled
    /\ thr[t].pc = "lock"
    /\ LockFree(_lock)
    /\ _lock' = _lock \cup {t}
    /\ thr' = [thr EXCEPT ![t].pc = "construct"]
    /\ UNCHANGED <<_instances, _cache, _timer, timers, nconstructed>>
    /\ UNCHANGED appvars
    /\ UNCHANGED pure

\* Under the lock: the instance is made if there is none, with its cache
\* empty and its first timer armed; the lock is released.
Construct(t) ==
    /\ Scheduled
    /\ thr[t].pc = "construct"
    /\ IF "UUIDIndexCache" \in _instances
       THEN UNCHANGED <<_instances, _cache, _timer, timers, nconstructed>>
       ELSE /\ Len(timers) < MaxTimers
            /\ _instances' = _instances \cup {"UUIDIndexCache"}
            /\ nconstructed' = nconstructed + 1
            /\ _cache' = NoValue
            /\ timers' = Append(Cancel(timers, 0), "pending")
            /\ _timer' = Len(timers) + 1
    /\ _lock' = _lock \ {t}
    /\ thr' = [thr EXCEPT ![t].pc = IF thr[t].op = "get" THEN "test" ELSE "clear"]
    /\ UNCHANGED appvars
    /\ UNCHANGED pure

\* get_cached_value: if instance._cache is None
GetTest(t) ==
    /\ Scheduled
    /\ thr[t].pc = "test"
    /\ thr' = [thr EXCEPT ![t].seen = _cache,
                          ![t].pc = IF _cache = NoValue THEN "refresh" ELSE "return"]
    /\ UNCHANGED <<_instances, _lock, _cache, _timer, timers, nconstructed>>
    /\ UNCHANGED appvars
    /\ UNCHANGED pure

\* instance._cache = refresh_method(): _refresh_cache raises on a status
\* other than 200, and the cache is left as it is.
GetRefresh(t, response) ==
    /\ Scheduled
    /\ thr[t].pc = "refresh"
    /\ IF response.status # 200
       THEN /\ thr' = [thr EXCEPT ![t].pc = "done", ![t].exc = "Exception",
                                  ![t].ncalls = @ + 1]
            /\ UNCHANGED _cache
       ELSE /\ thr' = [thr EXCEPT ![t].pc = "cancel",
                                  ![t].ncalls = @ + 1]
            /\ _cache' = response.body
    /\ UNCHANGED <<_instances, _lock, _timer, timers, nconstructed>>
    /\ UNCHANGED appvars
    /\ UNCHANGED pure

\* Clear as an invalidation that fetches the index again at once.
ClearRefetching(t) ==
    /\ Scheduled
    /\ thr[t].pc = "clear"
    /\ \E index \in IndexPool : _cache' = Value(index)
    /\ thr' = [thr EXCEPT ![t].pc = "cancel", ![t].ncalls = @ + 1]
    /\ UNCHANGED <<_instances, _lock, _timer, timers, nconstructed>>
    /\ UNCHANGED appvars
    /\ UNCHANGED pure

\* invalidate_cache: instance._cache = None
Clear(t) ==
    /\ Scheduled
    /\ thr[t].pc = "clear"
    /\ _cache' = NoValue
    /\ thr' = [thr EXCEPT ![t].pc = "cancel"]
    /\ UNCHANGED <<_instances, _lock, _timer, timers, nconstructed>>
    /\ UNCHANGED appvars
    /\ UNCHANGED pure

\* _set_invalidation_timer: if instance._timer is not None: instance._timer.cancel()
TimerCancel(t) ==
    /\ Scheduled
    /\ thr[t].pc = "cancel"
    /\ timers' = Cancel(timers, _timer)
    /\ thr' = [thr EXCEPT ![t].pc = "assign"]
    /\ UNCHANGED <<_instances, _lock, _cache, _timer, nconstructed>>
    /\ UNCHANGED appvars
    /\ UNCHANGED pure

\* _set_invalidation_timer: instance._timer = threading.Timer(...)
TimerAssign(t) ==
    /\ Scheduled
    /\ thr[t].pc = "assign"
    /\ Len(timers) < MaxTimers
    /\ timers' = Append(timers, "created")
    /\ _timer' = Len(timers) + 1
    /\ thr' = [thr EXCEPT ![t].pc = "start"]
    /\ UNCHANGED <<_instances, _lock, _cache, nconstructed>>
    /\ UNCHANGED appvars
    /\ UNCHANGED pure

\* _set_invalidation_timer: instance._timer.start(), on the timer the
\* attribute holds by now; start() on a thread that was started raises
\* RuntimeError. It is the last statement of invalidate_cache: the thread of a
\* timer ends with it (Timer.run sets its event).
Started(tms, k) ==
    IF tms[k] = "created" THEN [tms EXCEPT ![k] = "pending"]
    ELSE IF tms[k] = "created_finished" THEN [tms EXCEPT ![k] = "finished"]
    ELSE tms

TimerStart(t) ==
    /\ Scheduled
    /\ thr[t].pc = "start"
    /\ IF thr[t].op = "timer"
       THEN /\ timers' = [Started(timers, _timer) EXCEPT ![t] = "finished"]
            /\ thr' = [thr EXCEPT ![t] = ThrIdle]
       ELSE /\ timers' = Started(timers, _timer)
            /\ thr' = [thr EXCEPT
                        ![t].pc = IF timers[_timer] \notin {"created", "created_finished"}
                                  THEN "done"
                                  ELSE IF thr[t].op = "get" THEN "return" ELSE "done",
                        ![t].exc = IF timers[_timer] \notin {"created", "created_finished"}
                                   THEN "RuntimeError" ELSE None]
    /\ UNCHANGED <<_instances, _lock, _cache, _timer, nconstructed>>
    /\ UNCHANGED appvars
    /\ UNCHANGED pure

\* get_cached_value: return instance._cache
GetReturn(t) ==
    /\ Scheduled
    /\ thr[t].pc = "return"
    /\ thr' = [thr EXCEPT ![t].pc = "done", ![t].ret = _cache]
    /\ UNCHANGED <<_instances, _lock, _cache, _timer, timers, nconstructed>>
    /\ UNCHANGED appvars
    /\ UNCHANGED pure

\* The cache duration of a started timer is over: its thread calls
\* instance.invalidate_cache().
TimerFire(k) ==
    /\ Scheduled
    /\ k <= Len(timers)
    /\ timers[k] = "pending"
    /\ timers' = [timers EXCEPT ![k] = "fired"]
    /\ thr' = [thr EXCEPT ![k] = [ThrIdle EXCEPT !.pc = "clear", !.op = "timer"]]
    /\ UNCHANGED <<_instances, _lock, _cache, _timer, nconstructed>>
    /\ UNCHANGED appvars
    /\ UNCHANGED pure

\* invalidate_uuid_index_cache() is over, by return or by exception.
ManualReturn ==
    /\ thr[ManualThread].pc = "done"
    /\ thr' = [thr EXCEPT ![ManualThread] = [ThrIdle EXCEPT !.pc = "returned"]]
    /\ UNCHANGED <<_instances, _lock, _cache, _timer, timers, nconstructed>>
    /\ UNCHANGED appvars
    /\ UNCHANGED pure

\* update_categories_and_uuids with get_uuid_index() over: its exception
\* leaves the function (and the lifespan handler when this is the startup
\* call), and so does that of process_uuids(None); else process_uuids starts.
JobProcess ==
    /\ thr[JobThread].pc = "done"
    /\ thr' = [thr EXCEPT ![JobThread] = ThrIdle]
    /\ IF thr[JobThread].exc # None \/ thr[JobThread].ret = NoValue
       THEN /\ nruns' = nruns + 1
            /\ reg' = [RegIdle EXCEPT !.pc = "raised",
                          !.exc = IF thr[JobThread].exc # None THEN thr[JobThread].exc
                                  ELSE "AttributeError"]
            /\ phase' = IF phase = "startup" THEN "crashed" ELSE phase
            /\ ug0' = uuid_group
            /\ rprev' = reg.idx
            /\ UNCHANGED <<now, nticks, category, uuid_group, tables, category_cache,
                           req, nfetches>>
       ELSE UpdateStart(thr[JobThread].ret[1])
    /\ UNCHANGED <<_instances, _lock, _cache, _timer, timers, nconstructed>>
    /\ UNCHANGED pure

\* get_uuid_index() is over and what its caller does with the index is left
\* out (process_uuids shares no state with the index cache): the startup call
\* ends with the process serving, or down when get_uuid_index() raised.
JobReturn ==
    /\ thr[JobThread].pc = "done"
    /\ thr' = [thr EXCEPT ![JobThread] = ThrIdle]
    /\ nruns' = nruns + 1
    /\ phase' = IF phase # "startup" THEN phase
                ELSE IF thr[JobThread].exc # None \/ thr[JobThread].ret = NoValue
                THEN "crashed" ELSE "serving"
    /\ UNCHANGED <<_instances, _lock, _cache, _timer, timers, nconstructed>>
    /\ UNCHANGED <<now, nticks, category, uuid_group, tables, category_cache,
                   reg, ug0, rprev, req, nfetches>>
    /\ UNCHANGED pure

-----------------------------------------------------------------------------
RegistrarStep ==
    \/ \E index \in IndexPool : UpdateStart(index) /\ UNCHANGED idxvars
    \/ RegLoopEnd
    \/ RegSkipEmpty
    \/ RegCategoryLookup
    \/ \E outcome \in {"ok", "locked"} : RegCategoryCreate(outcome)
    \/ \E outcome \in {"ok", "locked", "error"} : RegAttempt(outcome)
    \/ RegSleep
    \/ CategoryCacheExpire
    \/ \E u \in Labelled, l \in Labels : SetLabel(u, l)

\* The startup run when the database answers every statement.
StartupStep ==
    \/ \E index \in IndexPool : nruns = 0 /\ UpdateStart(index) /\ UNCHANGED idxvars
    \/ RegLoopEnd
    \/ RegSkipEmpty
    \/ RegCategoryLookup
    \/ RegCategoryCreate("ok")
    \/ RegAttempt("ok")

FetchStep ==
    \/ \E h \in Handlers, uuid \in RequestUUIDs : HRead(h, uuid)
    \/ \E h \in Handlers, response \in Responses :
          HFetch(h, response.status, response.body)
    \/ \E h \in Handlers : HReturn(h)
    \/ \E d \in TickSteps : Tick(d)

\* The threads of the index cache.
ThreadStep ==
    \/ JobStart
    \/ ManualStart
    \/ \E t \in Threads : Acquire(t)
    \/ \E t \in Threads : Construct(t)
    \/ \E t \in Threads : GetTest(t)
    \/ \E t \in Threads, response \in IndexResponses : GetRefresh(t, response)
    \/ \E t \in Threads : Clear(t)
    \/ \E t \in Threads : TimerCancel(t)
    \/ \E t \in Threads : TimerAssign(t)
    \/ \E t \in Threads : TimerStart(t)
    \/ \E t \in Threads : GetReturn(t)
    \/ \E k \in 1..MaxTimers : TimerFire(k)
    \/ ManualReturn

\* The runs of update_categories_and_uuids, when the database answers every
\* statement.
UpdateStep ==
    \/ JobProcess
    \/ RegLoopEnd
    \/ RegSkipEmpty
    \/ RegCategoryLookup
    \/ RegCategoryCreate("ok")
    \/ RegAttempt("ok")

Next == RegistrarStep \/ FetchStep \/ ThreadStep \/ JobReturn \/ UpdateStep

\* The whole system.
Spec == Init /\ [][Next]_vars

\* The registrar, its caches and its table, with no request served.
SpecRegistrar == Init /\ [][RegistrarStep]_vars

\* The index cache under the threads that use it.
SpecIndex == Init /\ [][ThreadStep \/ JobReturn]_vars

\* The runs of update_categories_and_uuids on the index the cache returns.
SpecUpdate == Init /\ [][ThreadStep \/ UpdateStep]_vars

\* The requests served after a startup run that met no storage fault.
SpecFetch == Init /\ [][StartupStep \/ FetchStep]_vars

\* Two requests served at a time, the store of a miss step by step.
SyncStep ==
    \/ \E h \in AllHandlers, uuid \in SyncUUIDs : HRead(h, uuid)
    \/ \E h \in AllHandlers, response \in SyncResponses :
          HFetchCall(h, response.status, response.body)
    \/ \E h \in AllHandlers : HAdd(h)
    \/ \E h \in AllHandlers : HCommit(h)
    \/ \E h \in AllHandlers : HReturn(h)

SpecSync == Init /\ [][StartupStep \/ SyncStep]_vars

ParseStep == ParseAbility \/ ParseTyped

\* The parsers of aon_serializers.py, each applied to one input.
SpecParse == InitParse /\ [][ParseStep]_vars

-----------------------------------------------------------------------------
\* Properties.

\* Whether the request went as far as reading its group's records.
HasRead(r) == r.pc \in {"fetch", "done"} /\ r.model # None

\* A set of records that is servable: not empty, each record younger than the window.
AllWithinWindow(data, t) ==
    /\ data # {}
    /\ \A x \in data : t - x.last_fetched < FETCH_THRESHOLD_SECONDS

\* C1: a request for a registered uuid whose group has at least one record and
\* whose every record is younger than 2 hours returns the records it read,
\* makes no upstream call and commits nothing.
C1_CacheHit ==
    \A h \in Handlers :
        (HasRead(req[h]) /\ AllWithinWindow(req[h].data, req[h].now))
            => /\ req[h].pc = "done"
               /\ req[h].ret = ReturnRows(req[h].data, Cardinality(req[h].data))
               /\ req[h].ncalls = 0
               /\ ~req[h].committed

\* A hit on records that are one second short of the window.
C1_Witness ==
    \E h \in Handlers :
        /\ req[h].pc = "done" /\ req[h].hit /\ req[h].ret.kind = "data"
        /\ \E x \in req[h].data : req[h].now - x.last_fetched = FETCH_THRESHOLD_SECONDS - 1

\* C2: a request for a registered uuid whose group has no record, or a record
\* of 2 hours or more, makes exactly one upstream call, and when the upstream
\* answers 200 with items the parsed records are committed before it returns.
C2_MissFetchesOnceAndPersists ==
    \A h \in Handlers :
        (req[h].pc = "done" /\ req[h].model # None
            /\ ~AllWithinWindow(req[h].data, req[h].now))
            => /\ req[h].ncalls = 1
               /\ (req[h].status = 200 /\ req[h].ret # Return404("Data not found."))
                     => /\ req[h].committed
                        /\ req[h].ret.kind = "data"
                        /\ req[h].ret.rows \subseteq tables[req[h].model]

\* Whether every item of the payload parses for the category.
AllParse(category_name, payload) ==
    \A i \in 1..Len(payload) : Serialize(category_name, payload[i], 0, 0).ok

\* C3: for a typed category, storing a payload whose items all parse and that
\* holds an item whose id is stored for the group already ends without error,
\* leaves one row of that id, and sets that row's last_fetched to the time of
\* the pass.
C3_RefetchIsUpsert ==
    [][\A h \in Handlers, payload \in PayloadPool :
          (/\ HFetch(h, 200, payload)
           /\ payload # <<>>
           /\ req[h].model # "item"
           /\ AllParse(req[h].category_name, payload))
          => \A i \in 1..Len(payload) :
                (\E x \in GroupRows(tables, req[h].model, req[h].group_id) :
                     x.id = NumericId(payload[i].id))
                => /\ req'[h].ret.kind = "data"
                   /\ Cardinality({x \in tables'[req[h].model] :
                                      x.id = NumericId(payload[i].id)}) = 1
                   /\ \A x \in tables'[req[h].model] :
                         x.id = NumericId(payload[i].id) => x.last_fetched = now
      ]_vars

\* C8: after a pass that returns, the ids reported missing are the ids stored
\* for the group less the numeric ids of the payload.
C8_MissingIsStoredMinusFresh ==
    [][\A h \in Handlers, payload \in PayloadPool :
          (/\ HFetch(h, 200, payload)
           /\ payload # <<>>
           /\ req'[h].ret.kind = "data")
          => {m[2] : m \in req'[h].missing_ids}
               = {x.id : x \in GroupRows(tables', req[h].model, req[h].group_id)}
                   \ {NumericId(payload[i].id) :
                        i \in {j \in 1..Len(payload) : IdError(payload[j].id) = None}}
      ]_vars

\* C9: no step removes or changes a stored record.
C9_NoRecordDeleted ==
    [][\A m \in ModelNames : tables[m] \subseteq tables'[m]]_vars

\* A pass over a typed group has returned, and the group still holds a record
\* that was not in the payload.
C9_Witness ==
    \E h \in Handlers :
        /\ req[h].pc = "done" /\ req[h].committed /\ req[h].ret.kind = "data"
        /\ req[h].model # "item"
        /\ req[h].failed_entries = 0
        /\ req[h].ret.n > 0
        /\ \E x \in GroupRows(tables, req[h].model, req[h].group_id) :
              \A y \in req[h].ret.rows : y.id # x.id

\* The items of the payload that the category's serializer fails on.
Malformed(category_name, payload) ==
    {i \in 1..Len(payload) : ~Serialize(category_name, payload[i], 0, 0).ok}

\* C10: a pass over a payload of N items of which k >= 1 fail to parse returns
\* without raising, with N - k records stored and returned and k failures counted.
C10_MalformedItemsAreSkipped ==
    [][\A h \in Handlers, payload \in PayloadPool :
          (/\ HFetch(h, 200, payload)
           /\ Malformed(req[h].category_name, payload) # {})
          => /\ req'[h].ret.kind = "data"
             /\ req'[h].ret.n = Len(payload)
                                  - Cardinality(Malformed(req[h].category_name, payload))
             /\ req'[h].failed_entries
                   = Cardinality(Malformed(req[h].category_name, payload))
             /\ req'[h].ret.rows \subseteq tables'[req[h].model]
      ]_vars

\* The rows of uuid_group without their labels.
Unlabelled(groups) == {[g EXCEPT !.label = None] : g \in groups}

\* Whether every uuid of the index that has members has a row.
AllRegistered(idx, groups) ==
    \A i \in 1..Len(idx) : idx[i][2] # <<>> => \E g \in groups : g.uuid = idx[i][1]

\* C4, in its strong form: a run called with the index of the run before it inserts nothing.
C4_SecondCallInsertsNothing ==
    (nruns >= 2 /\ reg.idx = rprev) => Unlabelled(uuid_group) = Unlabelled(ug0)

\* C4: there is at most one row per uuid, and a run that starts with every
\* uuid of its index registered leaves the table as it was.
C4_Idempotent ==
    /\ \A g1, g2 \in uuid_group : g1.uuid = g2.uuid => g1 = g2
    /\ (nruns >= 1 /\ AllRegistered(reg.idx, ug0))
          => Unlabelled(uuid_group) = Unlabelled(ug0)

\* A second run with the index of the first has ended, every uuid registered before it.
C4_Witness ==
    /\ nruns = 2 /\ reg.pc = "idle" /\ reg.idx = rprev
    /\ reg.pos = Len(reg.idx) + 1
    /\ AllRegistered(reg.idx, ug0)
    /\ uuid_group # {}

\* C5: no step of the registrar changes or removes a row of uuid_group.
C5_ExistingRowsKept ==
    [][reg' # reg => \A g \in uuid_group : g \in uuid_group']_vars

\* The registrar's transaction went through for a uuid that was registered
\* before the run, with a label, under another category than the index now names.
C5_Witness ==
    /\ reg.last.result = "ok"
    /\ \E g \in uuid_group :
          /\ g.uuid = reg.last.uuid
          /\ g.label # None
          /\ g.category_id # reg.last.category_id
          /\ \E g0 \in ug0 : g0.uuid = g.uuid

\* C6: at most 3 attempts per uuid, a wait of retry_delay after each failed
\* one; a uuid that ran out of retries had 3 attempts and is not inserted;
\* after a success there is no further attempt; running out of retries
\* moves the loop to the next uuid, and no step of the retry loop ends the run.
C6_Counts ==
    /\ reg.attempt <= max_retries
    /\ reg.pc = "attempt" => reg.attempt < max_retries /\ reg.waited = reg.attempt * retry_delay
    /\ reg.last.result = "ranout"
          => /\ reg.last.attempts = max_retries
             /\ reg.last.waited = max_retries * retry_delay
    /\ reg.last.result = "ok"
          => /\ reg.last.attempts <= max_retries
             /\ reg.last.waited = (reg.last.attempts - 1) * retry_delay
    /\ \A u \in reg.ranout :
          (\E g \in uuid_group : g.uuid = u) <=> (\E g \in ug0 : g.uuid = u)

C6_Steps ==
    /\ (reg.pc = "sleep" /\ reg'.pc # "sleep" /\ reg.attempt = max_retries)
          => /\ reg'.pc = "loop"
             /\ reg'.pos = reg.pos + 1
             /\ reg'.last.result = "ranout"
             /\ reg'.last.uuid = reg.idx[reg.pos][1]
             /\ reg'.ranout = reg.ranout \cup {reg.idx[reg.pos][1]}
             /\ uuid_group' = uuid_group
    /\ (reg.pc = "attempt" /\ reg' # reg /\ reg'.pc # "sleep")
          => reg'.pc = "loop" /\ reg'.pos = reg.pos + 1
    /\ (reg.pc = "attempt" /\ reg'.pc = "sleep")
          => uuid_group' = uuid_group /\ reg'.attempt = reg.attempt + 1
    /\ (reg.pc \in {"attempt", "sleep"}) => reg'.pc # "raised"

\* C6: the retry policy of process_uuids, the counts in every state and the
\* moves of the retry loop in every step.
C6_RetryPolicy == [](C6_Counts) /\ [][C6_Steps]_vars

\* u1 ran out of retries and is not registered; u2, after it, is.
C6_Witness ==
    /\ "u1" \in reg.ranout
    /\ ~\E g \in uuid_group : g.uuid = "u1"
    /\ reg.last.uuid = "u2" /\ reg.last.result = "ok"
    /\ \E g \in uuid_group : g.uuid = "u2"

\* C7: no failure while one uuid is processed ends the run.
C7_FailureNeverAbortsBatch == reg.pc # "raised"

\* The threads that called get_uuid_index() and have its outcome.
GetOver == {t \in Threads : thr[t].op = "get" /\ thr[t].pc = "done"}

\* C11: a get that finds a value cached returns that value and makes no
\* upstream call; a get that finds none makes exactly one upstream call, and
\* when that call succeeds the value is cached, when it does not the get
\* ends with the error and the cache is empty.
C11_GetFetchesOnlyWhenEmpty ==
    \A t \in GetOver :
        /\ thr[t].seen # NoValue
              => thr[t].ncalls = 0 /\ thr[t].exc = None /\ thr[t].ret = thr[t].seen
        /\ thr[t].seen = NoValue
              => /\ thr[t].ncalls = 1
                 /\ thr[t].exc = "Exception" => _cache = NoValue

\* C12: in every reachable state at most one timer of the index cache is
\* started and waiting to fire.
C12_AtMostOneTimerPending == Cardinality(Pending(timers)) <= 1

\* The threads that are between their first and their last access to the
\* cached value and the timer, in get_cached_value or invalidate_cache.
InTransition == {t \in Threads : thr[t].pc \in {"refresh", "cancel", "assign", "start", "return"}}

\* C13: construction and the state transitions of get(), invalidate() and the
\* timer callback exclude each other: no two threads are at them at once, one
\* thread at most holds the lock, and one instance is constructed.
C13_MutualExclusion ==
    /\ Cardinality(InTransition) <= 1
    /\ Cardinality(_lock) <= 1
    /\ nconstructed <= 1

\* The threads that run invalidate_cache: a caller of
\* invalidate_uuid_index_cache(), or a timer's thread.
Invalidating == {t \in Threads : thr[t].op \in {"invalidate", "timer"}}

\* C14: an invalidation sets the cached value to None, then makes a new Timer
\* the instance's timer and starts the instance's timer; no step of it is an
\* upstream call, and every upstream call is made by a get that found no
\* value cached.
C14_InvalidateDoesNotFetch ==
    [][/\ \A t \in Invalidating :
            /\ thr[t].ncalls = 0
            /\ (thr[t].pc = "clear" /\ thr'[t] # thr[t])
                  => _cache' = NoValue /\ thr'[t].pc = "cancel" /\ thr'[t].ncalls = 0
            /\ (thr[t].pc = "assign" /\ thr'[t] # thr[t])
                  => /\ _timer' = Len(timers) + 1
                     /\ Len(timers') = Len(timers) + 1
                     /\ thr'[t].pc = "start"
            /\ (thr[t].pc = "start" /\ thr'[t] # thr[t] /\ timers[_timer] = "created")
                  => timers'[_timer] = "pending"
            /\ (thr'[t] # thr[t] /\ thr[t].pc # "idle")
                  => (_cache' = _cache \/ _cache' = NoValue)
       /\ \A t \in Threads :
            thr'[t].ncalls > thr[t].ncalls
               => thr[t].op = "get" /\ thr[t].seen = NoValue /\ thr[t].pc = "refresh"
      ]_vars

\* invalidate_uuid_index_cache() has returned, the cache is empty and the
\* timer it armed is pending; the run that follows is about to fetch.
C14_Witness ==
    /\ thr[ManualThread].pc = "returned"
    /\ _cache = NoValue
    /\ timers[_timer] = "pending"
    /\ thr[JobThread].pc = "refresh"
    /\ nruns = 1

\* C15: once the loop is past an index entry whose member list is empty, the
\* uuid has a row in uuid_group, under the category named "unknown".
C15_EmptyMembersUnderUnknown ==
    \A i \in 1..Len(reg.idx) :
        (i < reg.pos /\ reg.idx[i][2] = <<>>)
            => \E g \in uuid_group :
                  /\ g.uuid = reg.idx[i][1]
                  /\ \E c \in category : c.id = g.category_id /\ c.name = <<"unknown">>

\* C16: a request for a uuid that has no row in uuid_group ends at the lookup
\* with the answer 404 "UUID not found.", without an upstream call and without
\* a change to any table.
C16_UnknownUuidNotFound ==
    [][\A h \in Handlers :
          (/\ req[h].pc = "idle"
           /\ req'[h].pc # "idle"
           /\ ~\E g \in uuid_group : g.uuid = req'[h].uuid)
          => /\ req'[h].pc = "done"
             /\ req'[h].ret.kind = "404"
             /\ req'[h].ret.detail = "UUID not found."
             /\ req'[h].ncalls = 0
             /\ nfetches' = nfetches
             /\ <<category, uuid_group, tables>>' = <<category, uuid_group, tables>>
      ]_vars

\* The answer to a request for the uuid that is in no index.
C16_Witness ==
    \E h \in Handlers :
        /\ req[h].pc = "done" /\ req[h].uuid = "u9"
        /\ req[h].ret.kind = "404"
        /\ uuid_group # {}

\* C17: when the upstream answers the fetch of a miss with a status other than
\* 200, the request ends with the answer 404 "Data not found." and no table
\* changes: the records read for the group are all there as they were.
C17_UpstreamFailureLeavesStorage ==
    [][\A h \in Handlers :
          (/\ req[h].pc = "fetch"
           /\ req'[h].pc = "done"
           /\ req'[h].status # 200)
          => /\ req'[h].ret.kind = "404"
             /\ req'[h].ret.detail = "Data not found."
             /\ ~req'[h].committed
             /\ <<category, uuid_group, tables>>' = <<category, uuid_group, tables>>
             /\ req[h].data \subseteq tables'[req[h].model]
      ]_vars

\* A request found stale records, the upstream answered 503, and the records
\* are still there with the last_fetched they had.
C17_Witness ==
    \E h \in Handlers :
        /\ req[h].pc = "done" /\ req[h].status = 503
        /\ req[h].ret.kind = "404"
        /\ req[h].data # {}
        /\ req[h].data \subseteq tables[req[h].model]
        /\ \E x \in req[h].data : req[h].now - x.last_fetched >= FETCH_THRESHOLD_SECONDS

\* C18: when the upstream answers the fetch of a miss with 200, whatever the
\* array, the request ends with what store_fetched_data does with the array:
\* the records it returns (none for an empty array), or its exception.
C18_SuccessDelegatesToSynchronizer ==
    [][\A h \in Handlers, payload \in PayloadPool :
          HFetch(h, 200, payload)
          => \E s \in {store_fetched_data(req[h].group_id, req[h].model,
                                          req[h].category_name, payload, tables, now)} :
                req'[h].ret = IF s.exc # None THEN ReturnRaise(s.exc)
                              ELSE ReturnRows({s.stored_entries[i] : i \in 1..Len(s.stored_entries)},
                                              Len(s.stored_entries))
      ]_vars

\* C19: when get_uuid_index() fails on a status other than 200 in a run of
\* update_categories_and_uuids, at startup or on the scheduler's trigger, the
\* process serves afterwards, no table is changed by the run, and the cache is
\* empty, so that the next run fetches again.
C19_IndexFailureNeverFatal ==
    [][(/\ thr[JobThread].pc = "done"
        /\ thr[JobThread].exc = "Exception"
        /\ thr'[JobThread].pc = "idle")
       => /\ phase' = "serving"
          /\ <<category, uuid_group, tables>>' = <<category, uuid_group, tables>>
          /\ _cache' = NoValue
      ]_vars

\* The rows of category with the name of the pair the run is at.
NamedRows(cats) == {c \in cats : c.name = CategoryNameOf(CurItems)}

\* What C20 asks of one step of get_or_create_category: a lookup that finds
\* the name returns the id of its row; a call that creates the row creates
\* that one row, returns its id and adds the mapping to the cached ones,
\* which stay.
C20_Steps ==
    /\ (reg.pc = "loop" /\ reg'.pc = "attempt")
          => \E c \in NamedRows(category) : reg'.category_id = c.id
    /\ (reg.pc = "create" /\ category' # category)
          => /\ \E c \in NamedRows(category') :
                   /\ category' = category \cup {c}
                   /\ reg'.pc = "attempt"
                   /\ reg'.category_id = c.id
                   /\ category_cache'.valid
                   /\ <<c.name, c.id>> \in category_cache'.map
             /\ category_cache.map \subseteq category_cache'.map

\* C20: get_or_create_category returns the id of the row of the name, creates
\* the row (one row) when there is none and puts it in the category cache;
\* there is never a second row of a name, at whatever point the cache expires.
C20_GetOrCreateCategory ==
    [](\A c1, c2 \in category : c1.name = c2.name => c1 = c2) /\ [][C20_Steps]_vars
Misspelt == UNION {e.misspellings : e \in ability_map}

FreeBoostTable ==
    UNION {{e.correct_spelling} \cup e.misspellings : e \in special_cases}

\* C21 (as stated): every listed misspelling parses to the ability of its
\* canonical name, every canonical name parses to the ability of that name,
\* and every string that is neither a canonical name, a listed misspelling
\* nor a string of the free-boost table raises.
C21_OnlyListedStringsParse ==
    (pure.pc = "returned" /\ pure.fn = "parse_ability_mispellings" /\ pure.arg # NoValue)
        => /\ \A e \in ability_map :
                pure.arg[1] \in e.misspellings
                    => pure.result = Member("Ability", e.correct_spelling)
           /\ pure.arg[1] \in Ability
                    => pure.result.ok /\ MemberValue(pure.result) = pure.arg[1]
           /\ pure.arg[1] \notin Ability \cup Misspelt \cup FreeBoostTable
                    => ~pure.result.ok

\* C21 (amended): as above, but the two-free boost written with any mix of
\* spaces and underscores between its four words parses to that boost, and
\* only the strings beyond those raise ValueError.
C21_ListedAndUnderscoredStringsParse ==
    (pure.pc = "returned" /\ pure.fn = "parse_ability_mispellings" /\ pure.arg # NoValue)
        => /\ \A e \in ability_map :
                pure.arg[1] \in e.misspellings
                    => pure.result = Member("Ability", e.correct_spelling)
           /\ pure.arg[1] \in Ability
                    => pure.result.ok /\ MemberValue(pure.result) = pure.arg[1]
           /\ pure.arg[1] \in TwoFreeSpellings
                    => pure.result = Member("AbilityBoost", two_free_ability_boosts)
           /\ pure.arg[1] \notin Ability \cup Misspelt \cup FreeBoostTable \cup TwoFreeSpellings
                    => pure.result = AbilityRaises("ValueError")

C21_Witness ==
    /\ pure.pc = "returned"
    /\ pure.fn = "parse_ability_mispellings"
    /\ pure.arg = Value(<<"strengh">>)
    /\ pure.result = Member("Ability", <<"strength">>)

\* C23: a typed parser that returns has taken as id the number written after
\* the last '-' of the compound id, however many dashes the id has, and it
\* raises when the id has no dash or the text after the last dash is not a
\* number.
C23_IdIsTextAfterLastDash ==
    (pure.pc = "returned" /\ pure.fn \in {"parse_ancestry_data", "parse_class_data"})
        => IF Len(split(pure.arg)) >= 2 /\ IsNumeric(split(pure.arg)[Len(split(pure.arg))])
           THEN /\ pure.result.ok
                /\ pure.result.entry.id = py_int(split(pure.arg)[Len(split(pure.arg))])
           ELSE ~pure.result.ok

\* C25: a get_uuid_index() that ends without an error has returned an index,
\* never None, whatever the timer and invalidate() did while it ran.
C25_GetReturnsAnIndex ==
    \A t \in GetOver : thr[t].exc = None => thr[t].ret # NoValue

\* C26: in every reachable state the category_id of each IdentifierGroup row
\* is the id of a row of the Category table.
C26_GroupCategoryExists ==
    \A g \in uuid_group : \E c \in category : c.id = g.category_id

\* Groups of two categories after a later run created a third category.
C26_Witness ==
    /\ Cardinality({g.category_id : g \in uuid_group}) >= 2
    /\ Cardinality(category) > Cardinality(uuid_group)
    /\ \A g \in uuid_group : \E c \in category : c.id = g.category_id

\* C24: a request that reads a group holding a record stored less than 2 hours
\* before (the group was fetched and stored, and no 2 hours have passed since)
\* is a cache hit: it returns without an upstream call, whatever older
\* records the group holds besides.
C24_HitAfterStore ==
    \A h \in Handlers :
        (HasRead(req[h])
            /\ \E x \in req[h].data : req[h].now - x.last_fetched < FETCH_THRESHOLD_SECONDS)
            => /\ req[h].hit
               /\ req[h].pc = "done"
               /\ req[h].ncalls = 0

\* The rows a pass has parsed and added to its session, as its commit writes them.
PassRows(r) ==
    {WithIds(r.model, tables[r.model], r.session)[i] : i \in 1..Len(r.session)}

\* C22: the tables that the requests read change only by the commit of one
\* pass, which adds all the records that the pass parsed, in one step after
\* its loop is over; so a request that reads a group while a pass is under way
\* reads none of the pass's records or all of them.
C22_PassCommitsAllAtOnce ==
    [][tables' # tables
          => \E h \in AllHandlers :
                /\ req[h].pc = "add"
                /\ req[h].pos > Len(req[h].aon_data)
                /\ req'[h].pc = "done"
                /\ tables' = [tables EXCEPT ![req[h].model] = @ \cup PassRows(req[h])]
      ]_vars

\* A request has read a group, and found it empty, while a pass on that group
\* has added one record to its session and has another item to go through.
C22_Witness ==
    \E h \in AllHandlers, k \in AllHandlers :
        /\ h # k
        /\ req[h].pc = "add"
        /\ Len(req[h].session) = 1
        /\ req[h].pos = 2 /\ Len(req[h].aon_data) = 2
        /\ HasRead(req[k])
        /\ req[k].now = now
        /\ req[k].group_id = req[h].group_id
        /\ req[k].data = {}
        /\ req[k].pc = "fetch"

====
